---- MODULE Spec2Model ----
(***************************************************************************)
(* Model of the vidquery-aichat backend: the BrightData scrape trigger     *)
(* (backend/brightdata.js), the three agent tools and the ingestion        *)
(* function addYTVideoToVectorStore (agent.js / embeddings.js) and the     *)
(* POST /webhook handler (index.js).                                       *)
(*                                                                         *)
(* The third-party services the code calls (fetch, the text splitter, the  *)
(* PGVectorStore, the embedding provider) are modelled as an environment:  *)
(* each call either fails or yields a result, chosen with \E.  A JS string *)
(* is a sequence of tokens; a chunk's text is one token.                   *)
(***************************************************************************)
EXTENDS Integers, Sequences, FiniteSets, TLC

VARIABLES store, calls, reqs, toolCall

vars == <<store, calls, reqs, toolCall>>

(* ---------------- bounds ---------------- *)
MaxBatch == 2
MaxCalls == 2
MaxIngested == 2
MaxRequests == 2

(* ---------------- JS values ---------------- *)
Undefined == "undefined"

JsUndefined == [type |-> "undefined", str |-> <<>>]
JsString(toks) == [type |-> "string", str |-> toks]

VideoIds == {"v1", "v2"}
Transcripts == {"tShort", "tMed", "tLong"}
Queries == {"q1", "q2"}
Urls == {"https://youtube.com/watch?v=xyz"}

NullItem == [isNull |-> TRUE, video_id |-> Undefined, transcript |-> Undefined]
Obj(v, t) == [isNull |-> FALSE, video_id |-> v, transcript |-> t]

(* the elements a webhook body (any JSON array) can hold *)
Items ==
  {NullItem,
   Obj("v1", "tLong"),
   Obj("v2", "tMed"),
   Obj("v1", Undefined),
   Obj(Undefined, "tShort")}

Bodies == UNION {[1..n -> Items] : n \in 0..MaxBatch}

(* ---------------- text splitter (environment) ---------------- *)
(* number of chunks the splitter cuts a transcript into; a fixed function  *)
(* of the transcript                                                       *)
NumChunks(t) ==
  CASE t = "tShort" -> 1
    [] t = "tMed" -> 3
    [] t = "tLong" -> 30

Text(t, i) == t \o "#" \o ToString(i)

TextsOf(t) == {Text(t, i) : i \in 1..NumChunks(t)}

(* new Document({ pageContent: transcript, metadata: { video_id } }) *)
NewDocument(videoData) ==
  [pageContent |-> videoData.transcript,
   metadata |-> [video_id |-> videoData.video_id]]

(* splitter.splitDocuments([doc]): every chunk carries the metadata of     *)
(* the document it was cut from.  A document without text either makes     *)
(* the library throw or yields no chunk, depending on the library version. *)
SplitDocuments(doc) ==
  IF doc.pageContent = Undefined
  THEN {[ok |-> FALSE, chunks |-> <<>>], [ok |-> TRUE, chunks |-> <<>>]}
  ELSE {[ok |-> TRUE,
         chunks |-> [i \in 1..NumChunks(doc.pageContent) |->
                       [pageContent |-> Text(doc.pageContent, i),
                        metadata |-> doc.metadata]]]}

(* ---------------- vector store (environment) ---------------- *)
(* vectorStore.addDocuments(chunks) when it succeeds: one row per chunk;   *)
(* the field call records which ingestion wrote the row                    *)
AddDocuments_Overwrite(st, chunks, c) ==
  [i \in 1..Len(chunks) |->
     [pageContent |-> chunks[i].pageContent,
      metadata |-> chunks[i].metadata,
      call |-> c]]

AddDocuments_SkipExisting(st, chunks, c) ==
  IF \E i \in 1..Len(st), j \in 1..Len(chunks) :
       /\ st[i].pageContent = chunks[j].pageContent
       /\ st[i].metadata = chunks[j].metadata
  THEN st
  ELSE st \o [i \in 1..Len(chunks) |->
                [pageContent |-> chunks[i].pageContent,
                 metadata |-> chunks[i].metadata,
                 call |-> c]]

AddDocuments(st, chunks, c) ==
  st \o [i \in 1..Len(chunks) |->
           [pageContent |-> chunks[i].pageContent,
            metadata |-> chunks[i].metadata,
            call |-> c]]

NoFilter == [on |-> FALSE, video_id |-> Undefined]
VideoFilter(v) == [on |-> TRUE, video_id |-> v]

Matches(row, filter) ==
  \/ ~filter.on
  \/ row.metadata.video_id = filter.video_id

Min(a, b) == IF a < b THEN a ELSE b

Reverse(s) == [i \in 1..Len(s) |-> s[Len(s) + 1 - i]]

(* rows in order of distance to the query; the embedding decides the order, *)
(* here one query ranks by insertion order and the other by its reverse     *)
Ranked(st, query) == IF query = "q1" THEN st ELSE Reverse(st)

(* vectorStore.similaritySearch(query, k, filter) *)
SimilaritySearch(st, query, k, filter) ==
  LET hits == SelectSeq(Ranked(st, query), LAMBDA row : Matches(row, filter))
  IN [i \in 1..Min(k, Len(hits)) |->
        [pageContent |-> hits[i].pageContent, metadata |-> hits[i].metadata]]

(* ---------------- Array.prototype.join ---------------- *)
RECURSIVE Join(_, _)
Join(elems, sep) ==
  IF Len(elems) = 0 THEN <<>>
  ELSE LET h == IF elems[1] = Undefined THEN <<>> ELSE <<elems[1]>>
       IN IF Len(elems) = 1 THEN h
          ELSE h \o sep \o Join(Tail(elems), sep)

Separator == <<"\n", " ">>

(* ---------------- backend/brightdata.js ---------------- *)
(* what the provider can answer to the trigger request *)
ProviderResponses ==
  {[net |-> "error", status |-> 0, body |-> "none"],
   [net |-> "ok", status |-> 200, body |-> "snapshot"],
   [net |-> "ok", status |-> 200, body |-> "noSnapshotId"],
   [net |-> "ok", status |-> 200, body |-> "notJson"],
   [net |-> "ok", status |-> 500, body |-> "noSnapshotId"],
   [net |-> "ok", status |-> 500, body |-> "notJson"]}

SnapshotId == "s_snapshot1"

(* the external call failed: network error, non-2xx, or no snapshot_id *)
ExternalCallFailed(resp) ==
  \/ resp.net = "error"
  \/ resp.status # 200
  \/ resp.body # "snapshot"

(* triggerYoutubeVideoScrape(url): fetch throwing and response.json()      *)
(* throwing end in the catch block, which logs and falls off the end of    *)
(* the function; otherwise result.snapshot_id is returned as it is         *)
TriggerYoutubeVideoScrape(url, resp) ==
  IF resp.net = "error" THEN JsUndefined
  ELSE IF resp.body = "notJson" THEN JsUndefined
  ELSE IF resp.body = "snapshot" THEN JsString(<<SnapshotId>>)
  ELSE JsUndefined

(* ---------------- tools (agent.js) ---------------- *)
NoResponse == [net |-> "none", status |-> 0, body |-> "none"]

NoCall ==
  [name |-> "none", query |-> "", video_id |-> "", provider |-> NoResponse,
   docs |-> <<>>, result |-> JsUndefined, status |-> "none"]

(* triggerYoutubeVideoScrapeTool: returns whatever the helper returned; the  *)
(* helper never throws, so neither does the tool                           *)
TriggerYoutubeVideoScrapeTool(url, resp) ==
  toolCall' = [name |-> "triggerYoutubeVideoScrape", query |-> url,
               video_id |-> "", provider |-> resp, docs |-> <<>>,
               result |-> TriggerYoutubeVideoScrape(url, resp),
               status |-> "returned"]

RetrieveK == 3
SimilarK == 30

RetrieveDocs_NoFilter(st, query, videoId) ==
  SimilaritySearch(st, query, RetrieveK, NoFilter)

(* retrieveTool: the similarity search of line 74 *)
RetrieveDocs(st, query, videoId) ==
  SimilaritySearch(st, query, RetrieveK, VideoFilter(videoId))

(* retrieveTool: lines 78-80 *)
SerializeDocs(docs) ==
  Join([i \in 1..Len(docs) |-> docs[i].pageContent], Separator)

RetrieveSimilarDocs_OneMore(st, query) ==
  SimilaritySearch(st, query, SimilarK + 1, NoFilter)

(* retrieveSimilarVideosTool: the similarity search of line 106 *)
RetrieveSimilarDocs(st, query) ==
  SimilaritySearch(st, query, SimilarK, NoFilter)

(* retrieveSimilarVideosTool: line 108 *)
SerializeIds(docs) ==
  Join([i \in 1..Len(docs) |-> docs[i].metadata.video_id], Separator)

RetrieveTool(query, videoId) ==
  LET docs == RetrieveDocs(store, query, videoId)
  IN toolCall' = [name |-> "retrieve", query |-> query, video_id |-> videoId,
                  provider |-> NoResponse, docs |-> docs,
                  result |-> JsString(SerializeDocs(docs)),
                  status |-> "returned"]

RetrieveSimilarVideosTool(query) ==
  LET docs == RetrieveSimilarDocs(store, query)
  IN toolCall' = [name |-> "retrieveSimilarVideos", query |-> query,
                  video_id |-> "", provider |-> NoResponse, docs |-> docs,
                  result |-> JsString(SerializeIds(docs)),
                  status |-> "returned"]

(* a similaritySearch that fails rejects the tool's promise *)
SearchFails(name, query, videoId) ==
  toolCall' = [name |-> name, query |-> query, video_id |-> videoId,
               provider |-> NoResponse, docs |-> <<>>, result |-> JsUndefined,
               status |-> "threw"]

(* ---------------- ingestion (embeddings.js) ---------------- *)
(* addYTVideoToVectorStore up to its first await: line 177 reads           *)
(* videoData.video_id before the try block is entered                      *)
StartIngest(r, videoData) ==
  IF videoData.isNull
  THEN [req |-> r, videoData |-> videoData, pc |-> "rejected",
        chunks |-> <<>>, outcome |-> "threw"]
  ELSE [req |-> r, videoData |-> videoData, pc |-> "awaitSplit",
        chunks |-> <<>>, outcome |-> "none"]

CallsOf(r) == {c \in 1..Len(calls) : calls[c].req = r}

(* ---------------- actions ---------------- *)
(* app.post("/webhook"): req.body.map(...) starts every ingestion *)
WebhookPost(body) ==
  /\ Len(reqs) < MaxRequests
  /\ Len(calls) + Len(body) <= MaxCalls
  /\ reqs' = Append(reqs, [pc |-> "pending", response |-> "none"])
  /\ calls' = calls \o [i \in 1..Len(body) |-> StartIngest(Len(reqs) + 1, body[i])]
  /\ UNCHANGED <<store, toolCall>>

(* await splitter.splitDocuments(docs) resolves *)
SplitResolves(c) ==
  /\ calls[c].pc = "awaitSplit"
  /\ \E r \in SplitDocuments(NewDocument(calls[c].videoData)) :
       /\ r.ok
       /\ calls' = [calls EXCEPT ![c].pc = "awaitAdd", ![c].chunks = r.chunks]
  /\ UNCHANGED <<store, reqs, toolCall>>

(* await splitter.splitDocuments(docs) rejects: caught and logged *)
SplitRejects(c) ==
  /\ calls[c].pc = "awaitSplit"
  /\ \E r \in SplitDocuments(NewDocument(calls[c].videoData)) :
       /\ ~r.ok
       /\ calls' = [calls EXCEPT ![c].pc = "done", ![c].outcome = "failed"]
  /\ UNCHANGED <<store, reqs, toolCall>>

(* await vectorStore.addDocuments(chunks) resolves *)
AddResolves(c) ==
  /\ calls[c].pc = "awaitAdd"
  /\ store' = AddDocuments(store, calls[c].chunks, c)
  /\ calls' = [calls EXCEPT ![c].pc = "done", ![c].outcome = "stored"]
  /\ UNCHANGED <<reqs, toolCall>>

(* embedding or insertion fails: caught and logged, nothing inserted *)
AddRejects(c) ==
  /\ calls[c].pc = "awaitAdd"
  /\ calls' = [calls EXCEPT ![c].pc = "done", ![c].outcome = "failed"]
  /\ UNCHANGED <<store, reqs, toolCall>>

(* Promise.all resolves: res.send("OK") *)
WebhookResponds(r) ==
  /\ reqs[r].pc = "pending"
  /\ \A c \in CallsOf(r) : calls[c].pc = "done"
  /\ reqs' = [reqs EXCEPT ![r].pc = "responded", ![r].response = "OK"]
  /\ UNCHANGED <<store, calls, toolCall>>

(* Promise.all rejects as soon as one ingestion rejects; the handler's     *)
(* promise rejects before res.send: the client gets no answer or, where    *)
(* the framework handles rejected handlers, an error status                *)
WebhookRejects(r) ==
  /\ reqs[r].pc = "pending"
  /\ \E c \in CallsOf(r) : calls[c].pc = "rejected"
  /\ \E resp \in {"none", "500"} :
       reqs' = [reqs EXCEPT ![r].pc = "rejected", ![r].response = resp]
  /\ UNCHANGED <<store, calls, toolCall>>

Trigger ==
  /\ \E url \in Urls, resp \in ProviderResponses :
       TriggerYoutubeVideoScrapeTool(url, resp)
  /\ UNCHANGED <<store, calls, reqs>>

Retrieve ==
  /\ \E q \in Queries, v \in VideoIds \cup {"nonexistent_video"} :
       RetrieveTool(q, v)
  /\ UNCHANGED <<store, calls, reqs>>

RetrieveSimilarVideos ==
  /\ \E q \in Queries : RetrieveSimilarVideosTool(q)
  /\ UNCHANGED <<store, calls, reqs>>

SearchError ==
  /\ \E q \in Queries :
       \/ SearchFails("retrieve", q, "v1")
       \/ SearchFails("retrieveSimilarVideos", q, "")
  /\ UNCHANGED <<store, calls, reqs>>

Init ==
  /\ store = <<>>
  /\ calls = <<>>
  /\ reqs = <<>>
  /\ toolCall = NoCall

(* the webhook and the ingestions it starts *)
Next ==
  \/ \E body \in Bodies : WebhookPost(body)
  \/ \E c \in 1..Len(calls) : SplitResolves(c)
  \/ \E c \in 1..Len(calls) : SplitRejects(c)
  \/ \E c \in 1..Len(calls) : AddResolves(c)
  \/ \E c \in 1..Len(calls) : AddRejects(c)
  \/ \E r \in 1..Len(reqs) : WebhookResponds(r)
  \/ \E r \in 1..Len(reqs) : WebhookRejects(r)

Spec == Init /\ [][Next]_vars

(* ---------------- the tools over an index that ingestions filled -------- *)
IngestibleItems == {it \in Items : ~it.isNull /\ it.transcript # Undefined}

(* the state after the webhook delivered the items one by one and every    *)
(* ingestion succeeded                                                     *)
ChunksOf(videoData) ==
  (CHOOSE r \in SplitDocuments(NewDocument(videoData)) : r.ok).chunks

RECURSIVE StoreAfter(_)
StoreAfter(items) ==
  IF Len(items) = 0 THEN <<>>
  ELSE AddDocuments(StoreAfter(SubSeq(items, 1, Len(items) - 1)),
                    ChunksOf(items[Len(items)]), Len(items))

InitTools ==
  \E items \in UNION {[1..n -> IngestibleItems] : n \in 0..MaxIngested} :
    /\ store = StoreAfter(items)
    /\ calls = [i \in 1..Len(items) |->
                  [req |-> i, videoData |-> items[i], pc |-> "done",
                   chunks |-> ChunksOf(items[i]), outcome |-> "stored"]]
    /\ reqs = [i \in 1..Len(items) |-> [pc |-> "responded", response |-> "OK"]]
    /\ toolCall = NoCall

NextTools ==
  \/ Trigger
  \/ Retrieve
  \/ RetrieveSimilarVideos
  \/ SearchError

SpecTools == InitTools /\ [][NextTools]_vars

(* ======================= properties ======================= *)
IsSeparatorToken(tok) == tok \in {"\n", " "}
TextTokens(str) == SelectSeq(str, LAMBDA tok : ~IsSeparatorToken(tok))
RowsOf(c) == SelectSeq(store, LAMBDA row : row.call = c)
Returned(name) == toolCall.name = name /\ toolCall.status = "returned"

(* C1: whenever the external call of triggerScrape fails (network error,   *)
(* non-2xx answer, body without snapshot_id) the operation ends in an      *)
(* error and returns no value, in particular no undefined job handle.      *)
C1_TriggerFailureIsAnError ==
  (toolCall.name = "triggerYoutubeVideoScrape" /\ ExternalCallFailed(toolCall.provider))
    => toolCall.status = "threw"

(* C2: every POST /webhook with an array body is answered "OK", whatever   *)
(* the items are: a request whose handler has finished was answered "OK".  *)
C2_WebhookAlwaysAnswersOK ==
  \A r \in 1..Len(reqs) : reqs[r].pc # "pending" => reqs[r].response = "OK"

(* C3: for every input, addYTVideoToVectorStore completes normally: no     *)
(* ingestion call ends with a thrown error or a rejected promise.          *)
C3_IngestNeverPropagates ==
  \A c \in 1..Len(calls) : calls[c].pc # "rejected" /\ calls[c].outcome # "threw"

(* C4: once a webhook request is answered, the index holds no chunk of an  *)
(* item without transcript of that batch, and for every item of the batch  *)
(* whose ingestion stored its chunks it holds exactly those chunks, in     *)
(* order and unaltered, whatever the other ingestions did or do later.     *)
C4_BatchItemsAreIndependent ==
  \A r \in 1..Len(reqs) :
    reqs[r].pc = "responded" =>
      \A c \in CallsOf(r) :
        LET item == calls[c].videoData
        IN /\ item.transcript = Undefined => RowsOf(c) = <<>>
           /\ (item.transcript # Undefined /\ calls[c].outcome = "stored") =>
                RowsOf(c) = [i \in 1..NumChunks(item.transcript) |->
                               [pageContent |-> Text(item.transcript, i),
                                metadata |-> [video_id |-> item.video_id],
                                call |-> c]]

C4_Witness ==
  \E r \in 1..Len(reqs) :
    /\ reqs[r].pc = "responded"
    /\ \E c1, c2 \in CallsOf(r) :
         /\ ~calls[c1].videoData.isNull
         /\ calls[c1].videoData.transcript = Undefined
         /\ calls[c1].pc = "done"
         /\ calls[c2].videoData.transcript # Undefined
         /\ calls[c2].outcome = "stored"
         /\ Len(RowsOf(c2)) > 0

(* C5: every stored chunk has its video_id metadata set, equal to the      *)
(* video_id given to the ingestion call that created the chunk.            *)
C5_VideoIdAlwaysSet ==
  \A i \in 1..Len(store) :
    /\ store[i].metadata.video_id # Undefined
    /\ store[i].metadata.video_id = calls[store[i].call].videoData.video_id

(* C6: retrieve(query, video_id) never returns the text of a chunk whose   *)
(* video_id metadata differs from the requested video_id.                  *)
C6_RetrieveOnlyRequestedVideo ==
  Returned("retrieve") =>
    /\ \A i \in 1..Len(toolCall.docs) :
         toolCall.docs[i].metadata.video_id = toolCall.video_id
    /\ LET texts == TextTokens(toolCall.result.str)
       IN /\ Len(texts) = Len(toolCall.docs)
          /\ \A i \in 1..Len(texts) :
               /\ texts[i] = toolCall.docs[i].pageContent
               /\ \E j \in 1..Len(store) :
                    /\ store[j].pageContent = texts[i]
                    /\ store[j].metadata.video_id = toolCall.video_id

C6_Witness ==
  /\ Returned("retrieve")
  /\ Len(toolCall.docs) > 0
  /\ \E j \in 1..Len(store) : store[j].metadata.video_id # toolCall.video_id
  /\ toolCall.query = "q2"
  /\ store[Len(store)].metadata.video_id # toolCall.video_id

(* C8: retrieve returns exactly the raw texts of the matched chunks in     *)
(* rank order joined by a single newline character, and the empty string   *)
(* when nothing matches.                                                   *)
C8_JoinedBySingleNewline ==
  Returned("retrieve") =>
    /\ toolCall.result.type = "string"
    /\ toolCall.result.str =
         Join([i \in 1..Len(toolCall.docs) |-> toolCall.docs[i].pageContent], <<"\n">>)

(* C9: retrieve returns at most 3 results and retrieveSimilarVideos at     *)
(* most 30, the latter one video_id per matched chunk, in match order,     *)
(* duplicates kept.                                                        *)
C9_ResultLimits ==
  /\ Returned("retrieve") =>
       /\ Len(toolCall.docs) <= 3
       /\ Len(TextTokens(toolCall.result.str)) <= 3
  /\ Returned("retrieveSimilarVideos") =>
       /\ Len(toolCall.docs) <= 30
       /\ Len(TextTokens(toolCall.result.str)) <= 30
       /\ TextTokens(toolCall.result.str) =
            SelectSeq([i \in 1..Len(toolCall.docs) |-> toolCall.docs[i].metadata.video_id],
                      LAMBDA id : id # Undefined)

C9_Witness ==
  /\ Returned("retrieveSimilarVideos")
  /\ Len(store) > 30
  /\ Len(toolCall.docs) = 30
  /\ Len(TextTokens(toolCall.result.str)) = 30
  /\ \E i, j \in 1..30 :
       i # j /\ toolCall.docs[i].metadata.video_id = toolCall.docs[j].metadata.video_id

(* C10: ingestion is not idempotent: every successful ingestion of the     *)
(* same (video_id, transcript) adds a full copy of its chunks, so after    *)
(* two of them the video has twice the chunks it has after one.            *)
StoredCalls(v, t) ==
  {c \in 1..Len(calls) :
     /\ calls[c].outcome = "stored"
     /\ calls[c].videoData.video_id = v
     /\ calls[c].videoData.transcript = t}

ChunksInIndex(v, t) ==
  {i \in 1..Len(store) :
     store[i].metadata.video_id = v /\ store[i].pageContent \in TextsOf(t)}

C10_ReingestDuplicates ==
  \A v \in VideoIds, t \in Transcripts :
    Cardinality(ChunksInIndex(v, t)) = Cardinality(StoredCalls(v, t)) * NumChunks(t)

C10_Witness ==
  \E v \in VideoIds, t \in Transcripts :
    /\ Cardinality(StoredCalls(v, t)) = 2
    /\ Cardinality(ChunksInIndex(v, t)) = 2 * NumChunks(t)
    /\ NumChunks(t) > 0

====
